---- MODULE Spec2Model ----
\* The retrieval-augmented advisory pipeline of ecs-rag-pipeline/workflow.py and
\* chat.py, with the event store file it shares with lambda_function_event.py.
EXTENDS Integers, Sequences, FiniteSets, TLC

VARIABLES
    file,         \* data_source/dynamodb_anomaly_data/dummy_safety_events_2025.json
    contentList,  \* chat.contentList, the module-level list of chat.py
    env,          \* the stubs of a stable environment: planner model, chunk store, answer model
    pc,           \* per call of run_rag_pipeline: where it stands
    state,        \* per call: the langgraph State, a dict whose keys appear as nodes return them
    last_value,   \* per call: run_workflow's last_value, the update of the node streamed last
    raw_text,     \* per call: query_planner's raw_text, the planner model's response
    records,      \* per call: run_rag_pipeline's records, its private copy of the store
    outcome,      \* per call: "none" while running, "returned", or the exception that escaped
    trace,        \* per call: the node functions entered, in order (observer)
    searches,     \* per call: the similarity_search_with_score calls issued (observer)
    writes,       \* per call: how often the call opened the store for writing (observer)
    journal       \* the calls that ended and the ingestions that changed the store,
                  \* in the order they happened (observer)

vars == <<file, contentList, env, pc, state, last_value, raw_text, records,
          outcome, trace, searches, writes, journal>>

-----------------------------------------------------------------------------
\* Bounds of the model.

\* Calls of run_rag_pipeline in one behaviour.
NRuns == 2
\* Length of a planner response, in lexemes.
MaxText == 5
\* Length of a plan handed directly to the retriever.
MaxPlan == 2

Runs == 1..NRuns

\* Program constants.
TOP_K == 4
RECURSION_LIMIT == 50

-----------------------------------------------------------------------------
\* Text.  A string is a sequence of lexemes; a lexeme stands for a run of
\* characters that the parsing code never splits.

NL == "\n"
SP == " "
Words == {"Event JSON", "Natural-language questions", "q1", "q2", "q3"}
Lexemes == {NL, SP} \cup Words

\* str.lower(), per lexeme ("q1".."q3" are lower case already).
LowerLex(c) ==
    CASE c = "Event JSON" -> "event json"
      [] c = "Natural-language questions" -> "natural-language questions"
      [] OTHER -> c

Lower(s) == [i \in 1..Len(s) |-> LowerLex(s[i])]

\* str.splitlines(): cut at every line break; no empty last line after a final break.
RECURSIVE SplitLines(_)
SplitLines(s) ==
    IF s = <<>> THEN <<>>
    ELSE IF \E i \in 1..Len(s) : s[i] = NL
         THEN LET i == CHOOSE j \in 1..Len(s) :
                          s[j] = NL /\ \A k \in 1..(j - 1) : s[k] # NL
              IN  <<SubSeq(s, 1, i - 1)>> \o SplitLines(SubSeq(s, i + 1, Len(s)))
         ELSE <<s>>

\* str.strip(): drop leading and trailing white space.
RECURSIVE LStrip(_)
LStrip(s) == IF s # <<>> /\ Head(s) = SP THEN LStrip(Tail(s)) ELSE s

RECURSIVE RStrip(_)
RStrip(s) ==
    IF s # <<>> /\ s[Len(s)] = SP THEN RStrip(SubSeq(s, 1, Len(s) - 1)) ELSE s

Strip(s) == RStrip(LStrip(s))

\* str.startswith(prefixes), each prefix being one lexeme.
StartsWith(s, prefixes) == s # <<>> /\ s[1] \in prefixes

\* All strings of at most n lexemes.
RECURSIVE Texts(_)
Texts(n) ==
    IF n = 0 THEN {<<>>}
    ELSE LET shorter == Texts(n - 1)
         IN  shorter \cup {Append(t, c) : t \in {u \in shorter : Len(u) = n - 1},
                                          c \in Lexemes}

-----------------------------------------------------------------------------
\* Dicts.  A dict is a function from its keys; a key it lacks is outside DOMAIN.

Get(d, k, default) == IF k \in DOMAIN d THEN d[k] ELSE default

\* State's reducers: past_steps and info are Annotated with operator.add, every
\* other key is overwritten by an update.
Added == {"past_steps", "info"}

Merge(s, u) ==
    [k \in DOMAIN s \cup DOMAIN u |->
        IF k \notin DOMAIN u THEN s[k]
        ELSE IF k \in Added /\ k \in DOMAIN s THEN s[k] \o u[k]
        ELSE u[k]]

\* The model call of a node: it raises, or it returns a response with content.
LLMRaises == [ok |-> FALSE, content |-> <<>>]
LLMReturns(text) == [ok |-> TRUE, content |-> text]

-----------------------------------------------------------------------------
\* The stores' contents.

EventIds == {"e1", "e2"}

\* lambda_handler's item for an event: the fields the pipeline reads or must
\* leave alone.  It has no ragAdvisor key.
Item(e) == [eventId |-> e, status |-> "ACTIVATE"]

\* d[k] = v on a dict.
Put(d, k, v) == [x \in DOMAIN d \cup {k} |-> IF x = k THEN v ELSE d[x]]

\* The documents of the chunk store.  D1 and D3 carry the same text.
D1 == [page_content |-> "Wear PPE in Tank Area A", source |-> "a.pdf"]
D2 == [page_content |-> "Stop the forklift", source |-> "a.pdf"]
D3 == [page_content |-> "Wear PPE in Tank Area A", source |-> "b.pdf"]
Docs == {D1, D2, D3}

\* What the store may rank for one query: some of its documents, each at most
\* once, nearest first.
RECURSIVE RankingsUpTo(_)
RankingsUpTo(n) ==
    IF n = 0 THEN {<<>>}
    ELSE LET shorter == RankingsUpTo(n - 1)
         IN  shorter \cup
             {Append(t, d) : t \in {u \in shorter : Len(u) = n - 1}, d \in Docs}

AllRankings ==
    {t \in RankingsUpTo(Cardinality(Docs)) :
        \A i, j \in 1..Len(t) : i # j => t[i] # t[j]}

-----------------------------------------------------------------------------
\* chat.py

None == "None"

\* The loop of the check_duplication that the name is bound to (the second
\* definition): keep a tuple unless its page_content was seen, and remember it.
RECURSIVE DedupLoop(_, _, _)
DedupLoop(docs, seen_contents, unique_docs) ==
    IF docs = <<>> THEN unique_docs
    ELSE LET doc_tuple == Head(docs)
             page_text == doc_tuple[1].page_content
         IN  IF page_text \in seen_contents
             THEN DedupLoop(Tail(docs), seen_contents, unique_docs)
             ELSE DedupLoop(Tail(docs), seen_contents \cup {page_text},
                            Append(unique_docs, doc_tuple))

\* A loop that forgets what it has seen.
check_duplication_forgetful(docs, seen_contents) ==
    LET start == IF seen_contents = None THEN {} ELSE seen_contents
    IN  SelectSeq(docs, LAMBDA t : t[1].page_content \notin start)

\* A loop that keeps the last tuple of each text, not the first.
RECURSIVE KeepLast(_)
KeepLast(docs) ==
    IF docs = <<>> THEN <<>>
    ELSE IF \E i \in 2..Len(docs) : docs[i][1].page_content = Head(docs)[1].page_content
         THEN KeepLast(Tail(docs))
         ELSE <<Head(docs)>> \o KeepLast(Tail(docs))

check_duplication_last(docs, seen_contents) ==
    LET start == IF seen_contents = None THEN {} ELSE seen_contents
    IN  KeepLast(SelectSeq(docs, LAMBDA t : t[1].page_content \notin start))

check_duplication(docs, seen_contents) ==
    DedupLoop(docs, IF seen_contents = None THEN {} ELSE seen_contents, <<>>)

\* The first definition of check_duplication, which the second one shadows: it
\* filters against the module-level contentList and appends to it.
RECURSIVE FirstLoop(_, _, _)
FirstLoop(docs, cl, updated_docs) ==
    IF docs = <<>> THEN [out |-> updated_docs, contentList |-> cl]
    ELSE LET doc == Head(docs)
         IN  IF \E i \in 1..Len(cl) : cl[i] = doc[1].page_content
             THEN FirstLoop(Tail(docs), cl, updated_docs)
             ELSE FirstLoop(Tail(docs), Append(cl, doc[1].page_content),
                            Append(updated_docs, doc))

chat_check_duplication_first(docs, cl) == FirstLoop(docs, cl, <<>>)

\* A call that hands the loop the texts of contentList as its running set and
\* adds to the list what it keeps.
chat_check_duplication_shared(docs, cl) ==
    LET out == DedupLoop(docs, {cl[i] : i \in 1..Len(cl)}, <<>>)
    IN  [out |-> out,
         contentList |-> cl \o [i \in 1..Len(out) |-> out[i][1].page_content]]

\* chat.check_duplication(retrieved) as workflow.py calls it: the name resolves
\* to the second definition, seen_contents takes its default, and contentList
\* is not touched.
chat_check_duplication(docs, cl) ==
    [out |-> check_duplication(docs, None), contentList |-> cl]

-----------------------------------------------------------------------------
\* workflow.py: the node functions.

\* The prefixes of the lines query_planner drops.
Preambles == {"event json", "natural-language questions"}

Usable(line) == Strip(line) # <<>> /\ ~StartsWith(Lower(line), Preambles)

ParseQueries(text) ==
    LET lines == SelectSeq(SplitLines(text), Usable)
    IN  [i \in 1..Len(lines) |-> Strip(lines[i])]

NoUpdate == [raised |-> TRUE, update |-> <<>>]

\* A planner that absorbs a failed model call as generate_answer does.
query_planner_absorbing(s, response) ==
    IF response.ok
    THEN [raised |-> FALSE,
          update |-> [input |-> s.input, plan |-> ParseQueries(response.content)]]
    ELSE [raised |-> FALSE, update |-> [input |-> s.input, plan |-> <<>>]]

\* query_planner: the model call is not guarded, so its failure leaves the node.
query_planner(s, response) ==
    IF ~response.ok THEN NoUpdate
    ELSE [raised |-> FALSE,
          update |-> [input |-> s.input, plan |-> ParseQueries(response.content)]]

\* vectorstore.similarity_search_with_score(q, k): the k nearest of the store's
\* ranking for q, each with its score (here: its rank).
similarity_search_with_score(ranking, k) ==
    [i \in 1..(IF Len(ranking) < k THEN Len(ranking) ELSE k) |-> <<ranking[i], i>>]

\* sum(..., start=[]) over the plan, in plan order.
RECURSIVE SumSearches(_, _)
SumSearches(rankings, k) ==
    IF rankings = <<>> THEN <<>>
    ELSE similarity_search_with_score(Head(rankings), k)
             \o SumSearches(Tail(rankings), k)

\* retriever, given the store's ranking for each query of the plan.
retriever(s, rankings, cl) ==
    LET retrieved == SumSearches(rankings, TOP_K)
        filtered == chat_check_duplication(retrieved, cl)
    IN  [raised |-> FALSE,
         contentList |-> filtered.contentList,
         calls |-> [i \in 1..Len(s.plan) |->
                      [query |-> s.plan[i], k |-> TOP_K,
                       result |-> similarity_search_with_score(rankings[i], TOP_K)]],
         update |-> [input |-> s.input, plan |-> s.plan,
                     past_steps |-> <<s.plan>>, reference_docs |-> filtered.out]]

\* "\n\n".join(doc.page_content for doc, _ in state.get("reference_docs", []))
RECURSIVE Join(_, _)
Join(sep, parts) ==
    IF parts = <<>> THEN <<>>
    ELSE IF Len(parts) = 1 THEN <<parts[1]>>
    ELSE <<parts[1], sep>> \o Join(sep, Tail(parts))

Context(s) ==
    LET docs == Get(s, "reference_docs", <<>>)
    IN  Join("\n\n", [i \in 1..Len(docs) |-> docs[i][1].page_content])

Fallback == <<"Sorry, an internal error occurred while generating the answer.">>
NoAnswer == <<"No answer produced.">>

\* A generate_answer without its try/except.
generate_answer_unguarded(s, response) ==
    IF response.ok THEN [raised |-> FALSE, update |-> [answer |-> response.content]]
    ELSE NoUpdate

\* generate_answer: a failed model call is caught and answered with the fallback.
generate_answer(s, response) ==
    [raised |-> FALSE,
     update |-> [answer |-> IF response.ok THEN response.content ELSE Fallback]]

\* What a working answer model says to (context, input): a text fixed by both.
Answer(context, input) == <<"advice for", input.eventId, ":">> \o context

\* The graph of run_workflow.
END == "__end__"
EntryPoint == "planner"

\* A graph whose last edge leads back to the planner.
Edge_cyclic(node) ==
    CASE node = "planner" -> "retriever"
      [] node = "retriever" -> "generate"
      [] node = "generate" -> "planner"

Edge(node) ==
    CASE node = "planner" -> "retriever"
      [] node = "retriever" -> "generate"
      [] node = "generate" -> END

-----------------------------------------------------------------------------
\* The environment of a pipeline run.

\* Replies of the planner model: a failed call, blank lines only, an echoed
\* preamble and one query, two queries.
PlannerReplies ==
    {LLMRaises,
     LLMReturns(<<SP, NL>>),
     LLMReturns(<<"Event JSON", NL, "q1">>),
     LLMReturns(<<"q1", NL, SP, "q2">>)}

\* Every reply of at most MaxText lexemes, and the failed call.
AllReplies == {LLMRaises} \cup {LLMReturns(t) : t \in Texts(MaxText)}

\* Rankings of the chunk store in a pipeline run.
StoreRankings == {<<D1, D2>>, <<D2, D3>>}

\* A stable environment answers the same question the same way: a stub is
\* fixed by its first use.  An unstable one is free at every use.
Agrees(memo, key, v, stable) == stable /\ key \in DOMAIN memo => memo[key] = v
Learn(memo, key, v, stable) == IF stable THEN Put(memo, key, v) ELSE memo

RECURSIVE LearnAll(_, _, _, _)
LearnAll(memo, keys, vs, stable) ==
    IF keys = <<>> THEN memo
    ELSE LearnAll(Learn(memo, Head(keys), Head(vs), stable), Tail(keys), Tail(vs), stable)

-----------------------------------------------------------------------------
\* State and steps.

NodeNames == {"planner", "retriever", "generate"}
Terminal == {"done", "failed"}

Init ==
    /\ file = [st |-> "absent", recs |-> <<>>]
    /\ contentList = <<>>
    /\ env = [plan |-> <<>>, rank |-> <<>>, gen |-> <<>>]
    /\ pc = [r \in Runs |-> "idle"]
    /\ state = [r \in Runs |-> <<>>]
    /\ last_value = [r \in Runs |-> <<>>]
    /\ raw_text = [r \in Runs |-> <<>>]
    /\ records = [r \in Runs |-> <<>>]
    /\ outcome = [r \in Runs |-> "none"]
    /\ trace = [r \in Runs |-> <<>>]
    /\ searches = [r \in Runs |-> <<>>]
    /\ writes = [r \in Runs |-> 0]
    /\ journal = <<>>

\* The exception of a node whose outside call failed: the planner's and the
\* generator's is the model's, the retriever's is the chunk store's (the store
\* cannot be opened, or the embedding of a query or the search fails).
Raises(node) ==
    CASE node = "planner" -> "ModelError"
      [] node = "retriever" -> "StoreError"
      [] node = "generate" -> "ModelError"

\* An exception leaves run_rag_pipeline.
Raise(r, exception) ==
    /\ pc' = [pc EXCEPT ![r] = "failed"]
    /\ outcome' = [outcome EXCEPT ![r] = exception]
    /\ journal' = Append(journal, [kind |-> "call", who |-> r])

\* app.stream runs one node: the node's update is merged into the State and
\* becomes last_value, and the node's edge is followed; past the step budget
\* the graph raises instead of running the node.
Step(r, node, result) ==
    IF Len(trace[r]) >= RECURSION_LIMIT
    THEN /\ Raise(r, "GraphRecursionError")
         /\ UNCHANGED <<state, last_value, trace>>
    ELSE /\ trace' = [trace EXCEPT ![r] = Append(@, node)]
         /\ IF result.raised
            THEN /\ Raise(r, Raises(node))
                 /\ UNCHANGED <<state, last_value>>
            ELSE /\ state' = [state EXCEPT ![r] = Merge(@, result.update)]
                 /\ last_value' = [last_value EXCEPT ![r] = result.update]
                 /\ pc' = [pc EXCEPT ![r] =
                              IF Edge(node) = END THEN "load" ELSE Edge(node)]
                 /\ UNCHANGED <<outcome, journal>>

\* run_rag_pipeline(event) is called: run_workflow builds the graph and streams
\* it from its entry point with inputs = {"input": event}.  Calls are numbered
\* in the order they are made.
Call(r, e) ==
    /\ pc[r] = "idle"
    /\ \A q \in 1..(r - 1) : pc[q] # "idle"
    /\ pc' = [pc EXCEPT ![r] = EntryPoint]
    /\ state' = [state EXCEPT ![r] = [input |-> Item(e)]]
    /\ UNCHANGED <<file, contentList, env, last_value, raw_text, records,
                   outcome, trace, searches, writes, journal>>

Planner(r, stable, Replies) ==
    /\ pc[r] = "planner"
    /\ \E response \in Replies :
          LET key == state[r].input.eventId
          IN  /\ Agrees(env.plan, key, response, stable)
              /\ env' = [env EXCEPT !.plan = Learn(@, key, response, stable)]
              /\ raw_text' = [raw_text EXCEPT ![r] = response.content]
              /\ Step(r, "planner", query_planner(state[r], response))
    /\ UNCHANGED <<file, contentList, records, searches, writes>>

\* The retriever node.  Nothing in it is guarded: when build_or_load_chroma or
\* a search raises, the node returns nothing and the exception leaves the graph.
Retriever(r, stable, Ranks) ==
    /\ pc[r] = "retriever"
    /\ \/ LET plan == state[r].plan
          IN  \E rankings \in [1..Len(plan) -> Ranks] :
                 LET res == retriever(state[r], rankings, contentList)
                 IN  /\ \A i \in 1..Len(plan) :
                           /\ Agrees(env.rank, plan[i], rankings[i], stable)
                           /\ \A j \in 1..Len(plan) :
                                 stable /\ plan[i] = plan[j] => rankings[i] = rankings[j]
                     /\ env' = [env EXCEPT !.rank = LearnAll(@, plan, rankings, stable)]
                     /\ searches' = [searches EXCEPT ![r] = @ \o res.calls]
                     /\ contentList' = res.contentList
                     /\ Step(r, "retriever", res)
       \/ /\ Step(r, "retriever", NoUpdate)
          /\ UNCHANGED <<env, searches, contentList>>
    /\ UNCHANGED <<file, raw_text, records, writes>>

Generate(r, stable) ==
    /\ pc[r] = "generate"
    /\ \E mode \in {"returns", "raises"} :
          LET context == Context(state[r])
              key == <<context, state[r].input.eventId>>
              response == IF mode = "returns"
                          THEN LLMReturns(Answer(context, state[r].input))
                          ELSE LLMRaises
          IN  /\ Agrees(env.gen, key, mode, stable)
              /\ env' = [env EXCEPT !.gen = Learn(@, key, mode, stable)]
              /\ Step(r, "generate", generate_answer(state[r], response))
    /\ UNCHANGED <<file, contentList, raw_text, records, searches, writes>>

\* The positions of the records with this eventId.
Matches(recs, id) == {i \in 1..Len(recs) : Get(recs[i], "eventId", None) = id}

\* A loop that puts a new record in the place of the first match.
SetAdvisor_fresh(recs, id, rag_result) ==
    LET i == CHOOSE m \in Matches(recs, id) : \A n \in Matches(recs, id) : m <= n
    IN  [recs EXCEPT ![i] = [eventId |-> id, ragAdvisor |-> rag_result]]

\* The for loop of run_rag_pipeline: the first match gets the advisory.
SetAdvisor(recs, id, rag_result) ==
    LET i == CHOOSE m \in Matches(recs, id) : \A n \in Matches(recs, id) : m <= n
    IN  [recs EXCEPT ![i] = Put(@, "ragAdvisor", rag_result)]

\* A lookup that inserts a record for an unknown eventId.
Lookup_upsert(recs, id, rag_result) ==
    IF Matches(recs, id) = {}
    THEN [found |-> TRUE,
          records |-> Append(recs, [eventId |-> id, ragAdvisor |-> rag_result])]
    ELSE [found |-> TRUE, records |-> SetAdvisor(recs, id, rag_result)]

\* The for/else of run_rag_pipeline over the loaded records.
Lookup(recs, id, rag_result) ==
    IF Matches(recs, id) = {}
    THEN [found |-> FALSE, records |-> recs]
    ELSE [found |-> TRUE, records |-> SetAdvisor(recs, id, rag_result)]

\* run_workflow has returned; the store is read and the record looked up.
Load(r) ==
    /\ pc[r] = "load"
    /\ LET rag_result == Get(last_value[r], "answer", NoAnswer)
           id == state[r].input.eventId
       IN  IF file.st = "absent"
           THEN Raise(r, "FileNotFoundError") /\ UNCHANGED records
           ELSE IF file.st = "torn"
           THEN Raise(r, "JSONDecodeError") /\ UNCHANGED records
           ELSE LET looked == Lookup(file.recs, id, rag_result)
                IN  /\ records' = [records EXCEPT ![r] = looked.records]
                    /\ IF looked.found
                       THEN /\ pc' = [pc EXCEPT ![r] = "open"]
                            /\ UNCHANGED <<outcome, journal>>
                       ELSE Raise(r, "KeyError")
    /\ UNCHANGED <<file, contentList, env, state, last_value, raw_text,
                   trace, searches, writes>>

\* anomaly_file.open("w"): the file is truncated before anything is written.
OpenW(r) ==
    /\ pc[r] = "open"
    /\ file' = [st |-> "torn", recs |-> <<>>]
    /\ writes' = [writes EXCEPT ![r] = @ + 1]
    /\ pc' = [pc EXCEPT ![r] = "dump"]
    /\ UNCHANGED <<contentList, env, state, last_value, raw_text, records,
                   outcome, trace, searches, journal>>

\* json.dump(records, fp) and the close: the private copy becomes the store.
Dump(r) ==
    /\ pc[r] = "dump"
    /\ file' = [st |-> "ok", recs |-> records[r]]
    /\ pc' = [pc EXCEPT ![r] = "done"]
    /\ outcome' = [outcome EXCEPT ![r] = "returned"]
    /\ journal' = Append(journal, [kind |-> "call", who |-> r])
    /\ UNCHANGED <<contentList, env, state, last_value, raw_text, records,
                   trace, searches, writes>>

\* An append that does not look for the eventId first.
append_to_dummy_db_always(f, item) ==
    [st |-> "ok", recs |-> Append(IF f.st = "ok" THEN f.recs ELSE <<>>, item)]

\* lambda_handler(event) -> append_to_dummy_db(item): load_db reads a missing or
\* undecodable file as [], a known eventId is skipped, else the item is appended
\* and the list saved.
append_to_dummy_db(f, item) ==
    LET items == IF f.st = "ok" THEN f.recs ELSE <<>>
    IN  IF Matches(items, item.eventId) # {} THEN f
        ELSE [st |-> "ok", recs |-> Append(items, item)]

Ingest(e) ==
    /\ file' = append_to_dummy_db(file, Item(e))
    /\ journal' = IF file' = file THEN journal
                  ELSE Append(journal, [kind |-> "ingest", who |-> 0])
    /\ UNCHANGED <<contentList, env, pc, state, last_value, raw_text, records,
                   outcome, trace, searches, writes>>

\* No call of the pipeline is in progress.
Quiet == \A r \in Runs : pc[r] \in {"idle"} \cup Terminal

\* Calls may overlap (one dashboard session each), the models and the chunk
\* store may answer differently each time.
Next ==
    \/ \E r \in Runs, e \in EventIds : Call(r, e)
    \/ \E r \in Runs : Planner(r, FALSE, PlannerReplies)
    \/ \E r \in Runs : Retriever(r, FALSE, StoreRankings)
    \/ \E r \in Runs : Generate(r, FALSE)
    \/ \E r \in Runs : Load(r)
    \/ \E r \in Runs : OpenW(r)
    \/ \E r \in Runs : Dump(r)
    \/ \E e \in EventIds : Ingest(e)

Spec == Init /\ [][Next]_vars

\* One call at a time, ingestion between calls, stable models and chunk store.
SeqNext ==
    \/ \E r \in Runs, e \in EventIds : Quiet /\ Call(r, e)
    \/ \E r \in Runs : Planner(r, TRUE, PlannerReplies)
    \/ \E r \in Runs : Retriever(r, TRUE, StoreRankings)
    \/ \E r \in Runs : Generate(r, TRUE)
    \/ \E r \in Runs : Load(r)
    \/ \E r \in Runs : OpenW(r)
    \/ \E r \in Runs : Dump(r)
    \/ \E e \in EventIds : Quiet /\ Ingest(e)

SeqSpec == Init /\ [][SeqNext]_vars

\* query_planner alone, on every reply of the model: call 1 stands at the planner.
PlannerInit ==
    /\ file = [st |-> "absent", recs |-> <<>>]
    /\ contentList = <<>>
    /\ env = [plan |-> <<>>, rank |-> <<>>, gen |-> <<>>]
    /\ pc = [r \in Runs |-> IF r = 1 THEN "planner" ELSE "idle"]
    /\ \E e \in EventIds :
          state = [r \in Runs |-> IF r = 1 THEN [input |-> Item(e)] ELSE <<>>]
    /\ last_value = [r \in Runs |-> <<>>]
    /\ raw_text = [r \in Runs |-> <<>>]
    /\ records = [r \in Runs |-> <<>>]
    /\ outcome = [r \in Runs |-> "none"]
    /\ trace = [r \in Runs |-> <<>>]
    /\ searches = [r \in Runs |-> <<>>]
    /\ writes = [r \in Runs |-> 0]
    /\ journal = <<>>

PlannerNext == \E r \in Runs : Planner(r, FALSE, AllReplies)

PlannerSpec == PlannerInit /\ [][PlannerNext]_vars

\* retriever alone, on every plan of at most MaxPlan queries and every ranking
\* of the store: call 1 stands at the retriever, the planner having returned.
PlanQueries == {<<"q1">>, <<"q2">>}

RECURSIVE Plans(_)
Plans(n) ==
    IF n = 0 THEN {<<>>}
    ELSE LET shorter == Plans(n - 1)
         IN  shorter \cup
             {Append(t, q) : t \in {u \in shorter : Len(u) = n - 1}, q \in PlanQueries}

\* A reply that parses to the plan: one query a line.
RECURSIVE Lines(_)
Lines(plan) ==
    IF plan = <<>> THEN <<>>
    ELSE IF Len(plan) = 1 THEN plan[1]
    ELSE plan[1] \o <<NL>> \o Lines(Tail(plan))

RetrieverInit ==
    /\ file = [st |-> "absent", recs |-> <<>>]
    /\ contentList = <<>>
    /\ env = [plan |-> <<>>, rank |-> <<>>, gen |-> <<>>]
    /\ pc = [r \in Runs |-> IF r = 1 THEN "retriever" ELSE "idle"]
    /\ \E e \in EventIds, p \in Plans(MaxPlan) :
          LET u == [input |-> Item(e), plan |-> p]
          IN  /\ state = [r \in Runs |-> IF r = 1 THEN u ELSE <<>>]
              /\ last_value = [r \in Runs |-> IF r = 1 THEN u ELSE <<>>]
              /\ raw_text = [r \in Runs |-> IF r = 1 THEN Lines(p) ELSE <<>>]
    /\ records = [r \in Runs |-> <<>>]
    /\ outcome = [r \in Runs |-> "none"]
    /\ trace = [r \in Runs |-> IF r = 1 THEN <<"planner">> ELSE <<>>]
    /\ searches = [r \in Runs |-> <<>>]
    /\ writes = [r \in Runs |-> 0]
    /\ journal = <<>>

RetrieverNext == \E r \in Runs : Retriever(r, FALSE, AllRankings)

RetrieverSpec == RetrieverInit /\ [][RetrieverNext]_vars

-----------------------------------------------------------------------------
\* Vocabulary of the properties.

Started(r) == pc[r] # "idle"
InProgress(r) == pc[r] \notin {"idle"} \cup Terminal
EventIdOf(r) == state[r].input.eventId

\* The store holds a record with this eventId.
Known(f, id) == f.st = "ok" /\ \E i \in 1..Len(f.recs) : f.recs[i].eventId = id

\* The advisory of the first record with this eventId in a list of records.
Missing == <<"(no ragAdvisor)">>
AdvisorIn(recs, id) ==
    IF \E i \in 1..Len(recs) : recs[i].eventId = id
    THEN LET i == CHOOSE m \in 1..Len(recs) :
                     /\ recs[m].eventId = id
                     /\ \A n \in 1..(m - 1) : recs[n].eventId # id
         IN  IF "ragAdvisor" \in DOMAIN recs[i] THEN recs[i].ragAdvisor ELSE Missing
    ELSE Missing

\* The store, missing or whole, holds no record with this eventId.
Unknown(f, id) == f.st # "torn" /\ ~Known(f, id)

NotFoundErrors == {"KeyError", "FileNotFoundError"}

\* C1 as stated: a call for an eventId that matches no record of the store
\* leaves the store as it is, opens nothing for writing, and when it ends it
\* ends with a not-found error.
C1_UnknownIdRaisesNotFound ==
    [][\A r \in Runs :
          InProgress(r) /\ Unknown(file, EventIdOf(r)) =>
              /\ file' = file
              /\ writes'[r] = 0
              /\ pc'[r] \in Terminal =>
                    pc'[r] = "failed" /\ outcome'[r] \in NotFoundErrors]_vars

\* C1, amended: a call for an eventId that matches no record of the store
\* leaves the store as it is and opens nothing for writing, and it ends in an
\* error: once run_workflow has returned, a not-found error (KeyError, or
\* FileNotFoundError when the store file is missing); before that, the error
\* of the node whose outside call failed.
C1_UnknownIdNoWrite ==
    [][\A r \in Runs :
          InProgress(r) /\ Unknown(file, EventIdOf(r)) =>
              /\ file' = file
              /\ writes'[r] = 0
              /\ pc'[r] \in Terminal =>
                    /\ pc'[r] = "failed"
                    /\ pc[r] = "load" => outcome'[r] \in NotFoundErrors
                    /\ pc[r] # "load" =>
                          /\ pc[r] \in {"planner", "retriever"}
                          /\ outcome'[r] = Raises(pc[r])]_vars

\* C1's case: a call whose workflow returned an answer ended in KeyError on a
\* store that holds records, none of them with its eventId.
C1_Witness ==
    \E r \in Runs :
        /\ outcome[r] = "KeyError"
        /\ trace[r] = <<"planner", "retriever", "generate">>
        /\ file.st = "ok" /\ file.recs # <<>>
        /\ Unknown(file, EventIdOf(r))
        /\ writes[r] = 0

\* C2: when two calls for different eventIds, both in the store, have both
\* returned, each of the two records carries the advisory of its own call.
C2_NoLostUpdate ==
    \A r1, r2 \in Runs :
        /\ r1 # r2
        /\ pc[r1] = "done" /\ pc[r2] = "done"
        /\ EventIdOf(r1) # EventIdOf(r2)
        => /\ file.st = "ok"
           /\ AdvisorIn(file.recs, EventIdOf(r1)) = Get(last_value[r1], "answer", NoAnswer)
           /\ AdvisorIn(file.recs, EventIdOf(r2)) = Get(last_value[r2], "answer", NoAnswer)

\* C3: a call whose planner parsed no usable line ends with the planning
\* error, having entered no node but the planner, searched nothing and
\* opened nothing for writing.
C3_EmptyPlanAborts ==
    \A r \in Runs :
        /\ pc[r] \in Terminal
        /\ "plan" \in DOMAIN state[r]
        /\ state[r].plan = <<>>
        => /\ outcome[r] = "ModelError"
           /\ trace[r] = <<"planner">>
           /\ searches[r] = <<>>
           /\ writes[r] = 0

\* The answer model failed in this call's generate node.
GenerateFailed(r) ==
    /\ Len(trace[r]) = 3
    /\ <<Context(state[r]), EventIdOf(r)>> \in DOMAIN env.gen
    /\ env.gen[<<Context(state[r]), EventIdOf(r)>>] = "raises"

\* C4: when the answer model fails, generate_answer raises nothing and answers
\* with the fallback string; the call goes on to the write-back, and for a known
\* eventId the advisory it writes, and the store holds once it has returned, is
\* the fallback string.
C4_SynthesisFailureAbsorbed ==
    \A r \in Runs :
        GenerateFailed(r) =>
            /\ outcome[r] # "ModelError"
            /\ state[r].answer = Fallback
            /\ last_value[r] = [answer |-> Fallback]
            /\ pc[r] \in {"load", "open", "dump", "done", "failed"}
            /\ pc[r] = "failed" => outcome[r] \in NotFoundErrors
            /\ pc[r] \in {"open", "dump", "done"} =>
                  AdvisorIn(records[r], EventIdOf(r)) = Fallback
            /\ pc[r] = "done" =>
                  /\ outcome[r] = "returned"
                  /\ Quiet => AdvisorIn(file.recs, EventIdOf(r)) = Fallback

C4_Witness ==
    \E r \in Runs :
        /\ GenerateFailed(r)
        /\ pc[r] = "done"
        /\ AdvisorIn(file.recs, EventIdOf(r)) = Fallback

\* The raw results of a call's searches, concatenated in the order of the calls.
RECURSIVE Concatenated(_)
Concatenated(calls) ==
    IF calls = <<>> THEN <<>> ELSE Head(calls).result \o Concatenated(Tail(calls))

Retrieved(r) == "reference_docs" \in DOMAIN state[r]

\* C5: the retriever's reference_docs holds no two entries with the same chunk
\* text, and each of its entries is an entry of the concatenated raw results.
C5_DedupInvariant ==
    \A r \in Runs :
        Retrieved(r) =>
            LET out == state[r].reference_docs
                raw == Concatenated(searches[r])
            IN  /\ \A i, j \in 1..Len(out) :
                      i # j => out[i][1].page_content # out[j][1].page_content
                /\ \A i \in 1..Len(out) : \E j \in 1..Len(raw) : raw[j] = out[i]

\* C5's case: a plan of two queries or more whose raw results repeat a text.
C5_Witness ==
    \E r \in Runs :
        /\ Retrieved(r)
        /\ Len(state[r].plan) >= 2
        /\ LET raw == Concatenated(searches[r])
           IN  /\ \E i, j \in 1..Len(raw) :
                     i # j /\ raw[i][1].page_content = raw[j][1].page_content
               /\ Len(state[r].reference_docs) < Len(raw)
               /\ state[r].reference_docs # <<>>

\* The entries of a list whose text no earlier entry has, in their order.
RECURSIVE FirstOccurrences(_, _)
FirstOccurrences(raw, n) ==
    IF n = 0 THEN <<>>
    ELSE IF \E j \in 1..(n - 1) : raw[j][1].page_content = raw[n][1].page_content
         THEN FirstOccurrences(raw, n - 1)
         ELSE Append(FirstOccurrences(raw, n - 1), raw[n])

\* C6: the retriever searches once per query of the plan, in plan order, each
\* time for the top TOP_K; its reference_docs is the concatenation of the
\* results reduced to the first occurrence of each chunk text, order kept.
C6_FirstSeenOrder ==
    \A r \in Runs :
        Retrieved(r) =>
            LET plan == state[r].plan
                raw == Concatenated(searches[r])
            IN  /\ Len(searches[r]) = Len(plan)
                /\ \A i \in 1..Len(plan) :
                      /\ searches[r][i].query = plan[i]
                      /\ searches[r][i].k = TOP_K
                      /\ Len(searches[r][i].result) <= TOP_K
                /\ state[r].reference_docs = FirstOccurrences(raw, Len(raw))
                /\ state[r].past_steps = <<plan>>

\* C6's case: raw results of the shape [A, B, A, ...] by text, reduced to [A, B, ...].
C6_Witness ==
    \E r \in Runs :
        /\ Retrieved(r)
        /\ LET raw == Concatenated(searches[r])
               out == state[r].reference_docs
           IN  /\ Len(raw) >= 4 /\ Len(out) = 2
               /\ raw[1][1].page_content # raw[2][1].page_content
               /\ raw[3][1].page_content = raw[1][1].page_content
               /\ raw[3] # raw[1]
               /\ out = <<raw[1], raw[2]>>

\* Call r2 ended right after call r1 did, the store untouched in between.
InSequence(r1, r2) ==
    \E i \in 1..(Len(journal) - 1) :
        /\ journal[i] = [kind |-> "call", who |-> r1]
        /\ journal[i + 1] = [kind |-> "call", who |-> r2]

\* C7: of two calls for the same eventId that returned one after the other
\* under a stable environment, both produced and wrote the same advisory, and
\* the store the second left is the store the first left.
C7_TwiceSameAdvisory ==
    \A r1, r2 \in Runs :
        /\ InSequence(r1, r2)
        /\ pc[r1] = "done" /\ pc[r2] = "done"
        /\ EventIdOf(r1) = EventIdOf(r2)
        => /\ state[r1].answer = state[r2].answer
           /\ AdvisorIn(records[r1], EventIdOf(r1)) = state[r1].answer
           /\ AdvisorIn(records[r2], EventIdOf(r2)) = state[r2].answer
           /\ records[r1] = records[r2]
           /\ Quiet /\ journal[Len(journal)].who = r2 =>
                 file = [st |-> "ok", recs |-> records[r1]]

\* C7's case: two such calls whose answer rests on retrieved text.
C7_Witness ==
    \E r1, r2 \in Runs :
        /\ InSequence(r1, r2)
        /\ pc[r1] = "done" /\ pc[r2] = "done"
        /\ EventIdOf(r1) = EventIdOf(r2)
        /\ state[r1].reference_docs # <<>>
        /\ state[r1].answer # Fallback
        /\ records[r1] = records[r2]
        /\ file.recs = records[r2]

\* The chunk texts of a list of (chunk, score) pairs.
TextsOf(docs) == {docs[i][1].page_content : i \in 1..Len(docs)}

\* C11: whatever calls came before, the reference_docs of a call is its own raw
\* results reduced to first occurrences: every text of its raw results is in
\* it, two calls with the same raw results have the same reference_docs, and
\* the module-level contentList stays empty.
C11_FreshDedupState ==
    /\ contentList = <<>>
    /\ \A r \in Runs :
          Retrieved(r) =>
              LET raw == Concatenated(searches[r])
              IN  /\ state[r].reference_docs = FirstOccurrences(raw, Len(raw))
                  /\ TextsOf(state[r].reference_docs) = TextsOf(raw)
    /\ \A r1, r2 \in Runs :
          /\ Retrieved(r1) /\ Retrieved(r2)
          /\ Concatenated(searches[r1]) = Concatenated(searches[r2])
          => state[r1].reference_docs = state[r2].reference_docs

\* C11's case: a later call surfaces a text that an earlier call, now ended,
\* surfaced too, its raw results not being those of the earlier one.
C11_Witness ==
    \E r1, r2 \in Runs :
        /\ r1 < r2
        /\ pc[r1] \in Terminal
        /\ Retrieved(r1) /\ Retrieved(r2)
        /\ Concatenated(searches[r1]) # Concatenated(searches[r2])
        /\ TextsOf(state[r1].reference_docs) \cap TextsOf(state[r2].reference_docs) # {}

\* C12: while a call writes back, the store a reader finds is whole, either as
\* the call read it or as the call leaves it, and no reader fails to decode it.
C12_WriteBackAtomic ==
    \A r \in Runs :
        /\ outcome[r] # "JSONDecodeError"
        /\ pc[r] \in {"open", "dump"} =>
              /\ file.st = "ok"
              /\ \/ file.recs = records[r]
                 \/ Lookup(file.recs, EventIdOf(r), state[r].answer).records = records[r]

\* C13: a call that ends in an error ends in the planner's error, raised in the
\* planner node, or in a not-found error; no error leaves the generate node.
C13_OnlyPlanningAndNotFoundEscape ==
    \A r \in Runs :
        pc[r] = "failed" =>
            /\ \/ outcome[r] = "ModelError" /\ trace[r] = <<"planner">>
               \/ outcome[r] \in NotFoundErrors
            /\ Len(trace[r]) = 3 => "answer" \in DOMAIN state[r]

\* The number of ingestions that added a record to the store.
Ingested == Cardinality({i \in 1..Len(journal) : journal[i].kind = "ingest"})

AtMostOnePerId(recs) == \A id \in EventIds : Cardinality(Matches(recs, id)) <= 1

\* C14: the store, and the copy of it a call writes back, holds at most one
\* record per eventId; a record holds its advisory in the one field ragAdvisor
\* next to the fields it was ingested with; the store holds no more records
\* than ingestions added, so no call added one.
C14_OneRecordOneAdvisory ==
    /\ AtMostOnePerId(file.recs)
    /\ Len(file.recs) <= Ingested
    /\ \A i \in 1..Len(file.recs) :
          DOMAIN file.recs[i] \subseteq DOMAIN Item("e1") \cup {"ragAdvisor"}
    /\ \A r \in Runs :
          /\ AtMostOnePerId(records[r])
          /\ Len(records[r]) <= Ingested

\* C14's case: two calls for one eventId have written back, the event was
\* ingested before them and another event too; the store holds two records.
C14_Witness ==
    /\ Quiet
    /\ \A r \in Runs : pc[r] = "done" /\ EventIdOf(r) = "e1"
    /\ file.st = "ok" /\ Len(file.recs) = 2
    /\ AdvisorIn(file.recs, "e1") # Missing
    /\ AdvisorIn(file.recs, "e2") = Missing

\* after is before with nothing changed but the ragAdvisor of the first record
\* with this eventId, which is rag_result.
OnlyAdvisorSet(before, after, id, rag_result) ==
    /\ Len(after) = Len(before)
    /\ \E i \in 1..Len(before) :
          /\ before[i].eventId = id
          /\ \A j \in 1..(i - 1) : before[j].eventId # id
          /\ \A j \in 1..Len(before) : j # i => after[j] = before[j]
          /\ DOMAIN after[i] = DOMAIN before[i] \cup {"ragAdvisor"}
          /\ after[i].ragAdvisor = rag_result
          /\ \A k \in DOMAIN before[i] \ {"ragAdvisor"} : after[i][k] = before[i][k]

\* C15: the records a call opens the store to write are the store as it stands
\* with only the ragAdvisor of the first record with the call's eventId set, to
\* the answer of run_workflow; and what the call has written when it returns
\* is these records.
C15_WriteBackFrame ==
    [][\A r \in Runs :
          /\ pc[r] = "open" /\ pc'[r] = "dump" =>
                /\ file.st = "ok"
                /\ OnlyAdvisorSet(file.recs, records[r], EventIdOf(r),
                                  Get(last_value[r], "answer", NoAnswer))
                /\ records'[r] = records[r]
          /\ pc[r] = "dump" /\ pc'[r] = "done" =>
                file' = [st |-> "ok", recs |-> records[r]]]_vars

\* C15's case: a call has written back the advisory of the second record of a
\* store whose first record carries an advisory of its own.
C15_Witness ==
    \E r \in Runs :
        /\ Quiet /\ pc[r] = "done"
        /\ journal[Len(journal)] = [kind |-> "call", who |-> r]
        /\ file.st = "ok" /\ Len(file.recs) = 2
        /\ file.recs[2].eventId = EventIdOf(r)
        /\ file.recs[2] = Put(Item(EventIdOf(r)), "ragAdvisor", state[r].answer)
        /\ AdvisorIn(file.recs, file.recs[1].eventId) \notin {Missing, state[r].answer}

Stages == <<"planner", "retriever", "generate">>

IsPrefix(s, t) == Len(s) <= Len(t) /\ \A i \in 1..Len(s) : s[i] = t[i]

\* C8: a call enters the nodes in the order planner, retriever, generate, each
\* once and none before the one ahead of it returned; past the last node one
\* answer exists, the one run_workflow returns.
C8_LinearStages ==
    \A r \in Runs :
        /\ IsPrefix(trace[r], Stages)
        /\ pc[r] = "idle" => trace[r] = <<>>
        /\ pc[r] \in NodeNames => IsPrefix(trace[r] \o <<pc[r]>>, Stages)
        /\ pc[r] \in {"load", "open", "dump", "done"} =>
              /\ trace[r] = Stages
              /\ "answer" \in DOMAIN state[r]
              /\ last_value[r] = [answer |-> state[r].answer]
        /\ "answer" \in DOMAIN state[r] => trace[r] = Stages

C8_Witness ==
    \E r \in Runs : pc[r] = "done" /\ trace[r] = Stages /\ state[r].answer # Fallback

\* The planner model failed in this call.
PlannerFailed(r) ==
    /\ Started(r)
    /\ trace[r] # <<>>
    /\ EventIdOf(r) \in DOMAIN env.plan
    /\ ~env.plan[EventIdOf(r)].ok

\* C9: when the planner's model call fails, that failure leaves
\* run_rag_pipeline, no other node is entered, nothing is searched and nothing
\* is read from or written to the store, which the failing step leaves as it is.
C9_PlanningFailureSurfaces ==
    /\ [](\A r \in Runs :
            PlannerFailed(r) =>
                /\ pc[r] = "failed"
                /\ outcome[r] = "ModelError"
                /\ trace[r] = <<"planner">>
                /\ searches[r] = <<>>
                /\ "answer" \notin DOMAIN state[r]
                /\ records[r] = <<>>
                /\ writes[r] = 0)
    /\ [][\A r \in Runs :
            pc[r] = "planner" /\ pc'[r] = "failed" => file' = file]_vars

\* C9's case: the planner model failed for an event the store holds.
C9_Witness ==
    \E r \in Runs :
        /\ PlannerFailed(r)
        /\ Known(file, EventIdOf(r))
        /\ AdvisorIn(file.recs, EventIdOf(r)) = Missing

\* C10: a plan that query_planner returns holds exactly three queries, none
\* empty, no two the same.
C10_ThreeDistinctQueries ==
    \A r \in Runs :
        "plan" \in DOMAIN state[r] =>
            LET plan == state[r].plan
            IN  /\ Len(plan) = 3
                /\ \A i \in 1..Len(plan) : plan[i] # <<>>
                /\ \A i, j \in 1..Len(plan) : i # j => plan[i] # plan[j]

====
